---- MODULE Spec2Model ----
(***************************************************************************)
(* Model of src/background.js (Ghostery browser extension background       *)
(* page): the configuration-change dispatcher that drives the Cliqz        *)
(* modules, the start-up sequence with the web-request pipeline insertion, *)
(* and the runtime.onMessage router.                                       *)
(*                                                                         *)
(* JavaScript runs one turn at a time: every action below is one turn (a   *)
(* message handler, a promise continuation, a timer callback) run to its   *)
(* end, together with every synchronous call it makes.                     *)
(***************************************************************************)
EXTENDS Integers, Sequences, FiniteSets, Bags, TLC

\* ------------------------------------------------------------------ bounds
MaxInputs == 2      \* inbound messages, timer firings and rejections in one run
MaxPending == 2     \* cliqz promises pending once a message or a fetch result is taken
MaxRouted == 1      \* messages the router takes in one run of RouterSpec
MaxWaits == 3       \* debounce windows the clock passes through in DebounceSpec
MaxBurst == 3       \* firings of 'conf.changed.settings' not yet answered
MaxIntervals == 1   \* scheduling intervals the clock passes through in UpdateSpec

\* --------------------------------------------------------------- constants
Topics == {"enable_human_web", "enable_offers", "enable_anti_tracking", "enable_ad_block"}
Modules == {"human-web", "offers-v2", "message-center", "antitracking", "adblocker"}
Stages == {"onBeforeRequest", "onHeadersReceived"}
Tests == {"offers", "antitracking_full", "antitracking_half", "antitracking_collect"}

\* The module a conf.save.<topic> handler passes to setCliqzModuleEnabled first.
ModuleOf(topic) ==
    CASE topic = "enable_human_web" -> "human-web"
      [] topic = "enable_offers" -> "message-center"
      [] topic = "enable_anti_tracking" -> "antitracking"
      [] topic = "enable_ad_block" -> "adblocker"

\* The module whose isDisabled flag the start-up reconciliation reads for a topic.
StatusModuleOf(topic) ==
    IF topic = "enable_offers" THEN "offers-v2" ELSE ModuleOf(topic)

VARIABLES
    IS_EDGE,                  \* BROWSER_INFO.name === 'edge'
    IS_CLIQZ,                 \* globals.IS_CLIQZ
    JUST_UPGRADED_FROM_7,     \* globals.JUST_UPGRADED_FROM_7
    pipelineIsDisabled,       \* cliqz.modules['webrequest-pipeline'].isDisabled
    HUMAN_WEB_PROCESSING,
    OFFERS_PROCESSING,
    ANTI_TRACKING_PROCESSING,
    AD_BLOCK_PROCESSING,
    BACKGROUND_LOADING,
    conf,                     \* the watched Conf settings, by topic
    modState,                 \* each Cliqz module: "disabled", "enabling" or "enabled"
    pending,                  \* bag of the promises of cliqz calls not yet settled
    phase,                    \* where init() stands
    cliqzStartup,             \* the cliqzStartup promise chain
    dbInit,                   \* the four database init() promises, taken together
    pipelineInit,             \* the promise initialiseWebRequestPipeline returned
    step,                     \* each addPipelineStep action's promise, by stage
    before,                   \* the 'before' list handed to addPipelineStep, by stage
    directListener,           \* chrome.webRequest.<stage> holds Ghostery's own listener
    abtest,                   \* the tests the last abtest.fetch() brought
    fetching,                 \* abtest.fetch() promises not yet settled
    atConfig,                 \* options pushed to antitracking by setConfigOption
    writtenLoading,           \* topics written while BACKGROUND_LOADING was true
    msg,                      \* the message the router handled last, and its response
    inputs,                   \* messages, timer firings and rejections so far
    disk,                     \* the settings backup file the user holds
    notice,                   \* the 'onFileImported' message of the last import
    now,                      \* the clock, in milliseconds
    settingsSub,              \* the debounced 'conf.changed.settings' subscription
    checking,                 \* periodic checkLibraryVersion() calls not yet settled
    sinceTick                 \* what the scheduled check has done since the last tick

vars == <<IS_EDGE, IS_CLIQZ, JUST_UPGRADED_FROM_7, pipelineIsDisabled,
          HUMAN_WEB_PROCESSING, OFFERS_PROCESSING, ANTI_TRACKING_PROCESSING,
          AD_BLOCK_PROCESSING, BACKGROUND_LOADING, conf, modState, pending,
          phase, cliqzStartup, dbInit, pipelineInit, step, before, directListener,
          abtest, fetching, atConfig, writtenLoading, msg, inputs, disk, notice,
          now, settingsSub, checking, sinceTick>>

platformVars == <<IS_EDGE, IS_CLIQZ, JUST_UPGRADED_FROM_7, pipelineIsDisabled>>
fileVars == <<disk, notice>>
clockVars == <<now, settingsSub, checking, sinceTick>>
startupVars == <<phase, cliqzStartup, dbInit, pipelineInit, step, before, directListener>>

\* --------------------------------------------------------------- the clock
AutoUpdateAge == 900000
TaskInterval == 1800000
DebounceWait == 200

NoTimer == 0

\* The clock reads a time after 1970, no timer is set, and no scheduled check
\* of the library version is under way.
ClockInit ==
    /\ now = TaskInterval
    /\ settingsSub = [timeout |-> NoTimer, fired |-> 0, first |-> 0, last |-> 0,
                      inits |-> 0, burst |-> 0]
    /\ checking = 0
    /\ sinceTick = [attempted |-> FALSE, fails |-> 0, succeeded |-> FALSE]

\* ------------------------------------------------- synchronous call chains
\* The state a synchronous chain of calls reads and writes, as one record: a
\* handler is an operator from this record to the record it leaves behind.
Cur ==
    [conf |-> conf, modState |-> modState, pending |-> pending,
     atConfig |-> atConfig, writtenLoading |-> writtenLoading,
     HUMAN_WEB_PROCESSING |-> HUMAN_WEB_PROCESSING,
     OFFERS_PROCESSING |-> OFFERS_PROCESSING,
     ANTI_TRACKING_PROCESSING |-> ANTI_TRACKING_PROCESSING,
     AD_BLOCK_PROCESSING |-> AD_BLOCK_PROCESSING]

Commit(s) ==
    /\ conf' = s.conf
    /\ modState' = s.modState
    /\ pending' = s.pending
    /\ atConfig' = s.atConfig
    /\ writtenLoading' = s.writtenLoading
    /\ HUMAN_WEB_PROCESSING' = s.HUMAN_WEB_PROCESSING
    /\ OFFERS_PROCESSING' = s.OFFERS_PROCESSING
    /\ ANTI_TRACKING_PROCESSING' = s.ANTI_TRACKING_PROCESSING
    /\ AD_BLOCK_PROCESSING' = s.AD_BLOCK_PROCESSING

\* A promise of the Cliqz app: the call it answers (op), the module, the
\* transition it belongs to (src: the topic whose handler started it, or
\* "startup"), and for a disableModule call whether it was made in the
\* continuation of the module's isReady().
Promise(op, mod, src, afterReady) ==
    [op |-> op, mod |-> mod, src |-> src, afterReady |-> afterReady]

\* cliqz.enableModule(name): a disabled module starts enabling, and the
\* returned promise waits to be settled.
EnableModule(s, mod, src) ==
    [s EXCEPT
        !.modState[mod] = IF @ = "disabled" THEN "enabling" ELSE @,
        !.pending = @ (+) SetToBag({Promise("enable", mod, src, FALSE)})]

\* cliqz.disableModule(name); afterReady tells whether the call is made in the
\* continuation of the module's isReady().
DisableModule(s, mod, src, afterReady) ==
    [s EXCEPT !.pending = @ (+) SetToBag({Promise("disable", mod, src, afterReady)})]

SetCliqzModuleEnabled(s, mod, enabled, src) ==
    IF enabled
    THEN EnableModule(s, mod, src)
    ELSE [s EXCEPT !.pending = @ (+) SetToBag({Promise("isReady", mod, src, FALSE)})]

\* dispatcher.on('conf.save.enable_human_web', ...)
OnEnableHumanWeb(s, enableHumanWeb) ==
    IF ~IS_EDGE /\ ~IS_CLIQZ /\ ~s.HUMAN_WEB_PROCESSING /\ ~BACKGROUND_LOADING
    THEN SetCliqzModuleEnabled([s EXCEPT !.HUMAN_WEB_PROCESSING = TRUE],
                               "human-web", enableHumanWeb, "enable_human_web")
    ELSE s

\* A variant of the handler below that asks for the offers-v2 transition in the
\* same turn as for the message-center one.
OnEnableOffers_BothAtOnce(s, enableOffers) ==
    IF ~IS_EDGE /\ ~IS_CLIQZ /\ ~s.OFFERS_PROCESSING /\ ~BACKGROUND_LOADING
    THEN [SetCliqzModuleEnabled(
              SetCliqzModuleEnabled([s EXCEPT !.OFFERS_PROCESSING = TRUE],
                                    "message-center", enableOffers, "enable_offers"),
              "offers-v2", enableOffers, "enable_offers")
            EXCEPT !.OFFERS_PROCESSING = FALSE]
    ELSE s

\* dispatcher.on('conf.save.enable_offers', ...): the guard is cleared in the
\* same turn, before the promise settles.
OnEnableOffers(s, enableOffers) ==
    IF ~IS_EDGE /\ ~IS_CLIQZ /\ ~s.OFFERS_PROCESSING /\ ~BACKGROUND_LOADING
    THEN [SetCliqzModuleEnabled([s EXCEPT !.OFFERS_PROCESSING = TRUE],
                                "message-center", enableOffers, "enable_offers")
            EXCEPT !.OFFERS_PROCESSING = FALSE]
    ELSE s

\* A variant of the handler below that does not look at BACKGROUND_LOADING.
OnEnableAntiTracking_NoLoadingCheck(s, enableAntitracking) ==
    IF ~IS_CLIQZ /\ ~s.ANTI_TRACKING_PROCESSING
    THEN SetCliqzModuleEnabled([s EXCEPT !.ANTI_TRACKING_PROCESSING = TRUE],
                               "antitracking", enableAntitracking, "enable_anti_tracking")
    ELSE s

\* dispatcher.on('conf.save.enable_anti_tracking', ...)
OnEnableAntiTracking(s, enableAntitracking) ==
    IF ~IS_CLIQZ /\ ~s.ANTI_TRACKING_PROCESSING /\ ~BACKGROUND_LOADING
    THEN SetCliqzModuleEnabled([s EXCEPT !.ANTI_TRACKING_PROCESSING = TRUE],
                               "antitracking", enableAntitracking, "enable_anti_tracking")
    ELSE s

\* A variant of the handler below that drives the anti-tracking module.
OnEnableAdBlock_WrongModule(s, enableAdBlock) ==
    IF ~IS_CLIQZ /\ ~s.AD_BLOCK_PROCESSING /\ ~BACKGROUND_LOADING
    THEN SetCliqzModuleEnabled(s, "antitracking", enableAdBlock, "enable_ad_block")
    ELSE s

\* dispatcher.on('conf.save.enable_ad_block', ...): the guard is tested and
\* later cleared, and never set.
OnEnableAdBlock(s, enableAdBlock) ==
    IF ~IS_CLIQZ /\ ~s.AD_BLOCK_PROCESSING /\ ~BACKGROUND_LOADING
    THEN SetCliqzModuleEnabled(s, "adblocker", enableAdBlock, "enable_ad_block")
    ELSE s

\* initializeDispatcher() has subscribed the handlers.
DispatcherOn == phase \in {"modules", "running"}

\* dispatcher.trigger('conf.save.<key>', value): the subscribed handler runs in
\* the same turn.
Trigger(s, key, value) ==
    IF ~DispatcherOn THEN s
    ELSE CASE key = "enable_human_web" -> OnEnableHumanWeb(s, value)
           [] key = "enable_offers" -> OnEnableOffers(s, value)
           [] key = "enable_anti_tracking" -> OnEnableAntiTracking(s, value)
           [] key = "enable_ad_block" -> OnEnableAdBlock(s, value)
           [] OTHER -> s

\* conf.<key> = value: the value is stored and the change event is published
\* before the assignment returns.
ConfSet(s, key, value) ==
    Trigger([s EXCEPT !.conf[key] = value,
                      !.writtenLoading = IF BACKGROUND_LOADING THEN @ \cup {key} ELSE @],
            key, value)

GetAntitrackingTestConfig(tests) ==
    IF "antitracking_full" \in tests THEN [qsEnabled |-> TRUE, telemetryMode |-> 2]
    ELSE IF "antitracking_half" \in tests THEN [qsEnabled |-> TRUE, telemetryMode |-> 1]
    ELSE IF "antitracking_collect" \in tests THEN [qsEnabled |-> FALSE, telemetryMode |-> 1]
    ELSE [qsEnabled |-> FALSE, telemetryMode |-> 0]

\* A variant of the function below that pushes the telemetryMode of the test
\* whatever enable_human_web is.
SetupABTests_KeepsTelemetry(s, tests) ==
    LET s1 == IF s.conf["enable_anti_tracking"]
              THEN [s EXCEPT !.atConfig = <<GetAntitrackingTestConfig(tests)>>]
              ELSE s
    IN ConfSet(s1, "enable_offers", ("offers" \in tests) /\ s1.conf["enable_offers"])

\* A variant of the function below that enables offers whenever the 'offers'
\* test is present.
SetupABTests_OffersFromTest(s, tests) ==
    LET antitrackingConfig ==
            IF ~s.conf["enable_human_web"]
            THEN [GetAntitrackingTestConfig(tests) EXCEPT !.telemetryMode = 0]
            ELSE GetAntitrackingTestConfig(tests)
        s1 == IF s.conf["enable_anti_tracking"]
              THEN [s EXCEPT !.atConfig = <<antitrackingConfig>>]
              ELSE s
    IN ConfSet(s1, "enable_offers", "offers" \in tests)

\* setupABTests(), with the tests abtest holds when it runs.
SetupABTests(s, tests) ==
    LET antitrackingConfig ==
            IF ~s.conf["enable_human_web"]
            THEN [GetAntitrackingTestConfig(tests) EXCEPT !.telemetryMode = 0]
            ELSE GetAntitrackingTestConfig(tests)
        s1 == IF s.conf["enable_anti_tracking"]
              THEN [s EXCEPT !.atConfig = <<antitrackingConfig>>]
              ELSE s
    IN ConfSet(s1, "enable_offers", ("offers" \in tests) /\ s1.conf["enable_offers"])

\* A variant of the condition below that does not wait for cliqzStartup.
LoadingEndDue_DbOnly == phase = "modules" /\ dbInit = "resolved"

\* A variant of the condition below that also holds after a database init was
\* rejected.
LoadingEndDue_AnySettled == phase = "modules" /\ dbInit # "pending" /\ cliqzStartup = "settled"

\* Both the database inits and cliqzStartup are settled well and init() has not
\* yet cleared BACKGROUND_LOADING: its continuation runs before any other turn.
LoadingEndDue == phase = "modules" /\ dbInit = "resolved" /\ cliqzStartup = "settled"

\* -------------------------------------------------- settling cliqz promises
\* What the Cliqz app does to the module when the promise p settles.
ModuleSettled(s, p, ok) ==
    CASE p.op = "enable" ->
            [s EXCEPT !.modState[p.mod] =
                IF ok THEN "enabled" ELSE IF @ = "enabling" THEN "disabled" ELSE @]
      [] p.op = "disable" ->
            [s EXCEPT !.modState[p.mod] = IF ok THEN "disabled" ELSE @]
      [] p.op = "isReady" -> s

\* A variant of the continuations below in which the one of the human-web
\* handler clears the guard and does not call setupABTests().
ThenOf_NoRecompute(s, p, tests) ==
    IF p.op = "isReady" THEN DisableModule(s, p.mod, p.src, TRUE)
    ELSE CASE p.src = "enable_human_web" -> [s EXCEPT !.HUMAN_WEB_PROCESSING = FALSE]
           [] p.src = "enable_offers" ->
                IF p.mod = "message-center"
                THEN SetCliqzModuleEnabled(s, "offers-v2", p.op = "enable", p.src)
                ELSE s
           [] p.src = "enable_anti_tracking" ->
                [s EXCEPT !.ANTI_TRACKING_PROCESSING = FALSE]
           [] p.src = "enable_ad_block" ->
                [s EXCEPT !.AD_BLOCK_PROCESSING = FALSE]
           [] p.src = "startup" -> s

\* The .then() continuation attached to the promise p, run when p is fulfilled.
ThenOf(s, p, tests) ==
    IF p.op = "isReady" THEN DisableModule(s, p.mod, p.src, TRUE)
    ELSE CASE p.src = "enable_human_web" ->
                SetupABTests([s EXCEPT !.HUMAN_WEB_PROCESSING = FALSE], tests)
           [] p.src = "enable_offers" ->
                IF p.mod = "message-center"
                THEN SetCliqzModuleEnabled(s, "offers-v2", p.op = "enable", p.src)
                ELSE s
           [] p.src = "enable_anti_tracking" ->
                [s EXCEPT !.ANTI_TRACKING_PROCESSING = FALSE]
           [] p.src = "enable_ad_block" ->
                [s EXCEPT !.AD_BLOCK_PROCESSING = FALSE]
           [] p.src = "startup" -> s

\* A cliqz promise is fulfilled: the module changes state and the continuation
\* runs. isReady() is fulfilled only once the module is enabled.
Fulfil(p) ==
    /\ BagIn(p, pending)
    /\ ~LoadingEndDue
    /\ p.op = "isReady" => modState[p.mod] = "enabled"
    /\ Commit(ThenOf(ModuleSettled([Cur EXCEPT !.pending = @ (-) SetToBag({p})], p, TRUE),
                     p, abtest))
    /\ UNCHANGED <<platformVars, clockVars, fileVars, startupVars, BACKGROUND_LOADING, abtest, fetching,
                   msg, inputs>>

\* A cliqz promise is rejected: no handler of background.js is attached to the
\* rejection, so nothing of its own state changes.
Reject(p) ==
    /\ BagIn(p, pending)
    /\ ~LoadingEndDue
    /\ inputs < MaxInputs
    /\ inputs' = inputs + 1
    /\ Commit(ModuleSettled([Cur EXCEPT !.pending = @ (-) SetToBag({p})], p, FALSE))
    /\ UNCHANGED <<platformVars, clockVars, fileVars, startupVars, BACKGROUND_LOADING, abtest, fetching,
                   msg>>

\* ------------------------------------------------------ settings backup files
\* No file (a message that carries none is not parseable as a backup).
NoFile == [hash |-> 0, text |-> <<>>]

\* No 'onFileImported' message has been asked for.
NoNotice == [type |-> "none", active |-> "none", to |-> "none"]

\* The settings a backup holds, in the order of the keys of the object: the
\* four watched module switches and the purple box timeout.
SettingKeys == <<"enable_human_web", "enable_offers", "enable_anti_tracking",
                 "enable_ad_block", "alert_bubble_timeout">>

\* The purple box timeouts a store may hold, in seconds.
Timeouts == {15, 60}

\* The store of a new installation; bugs_last_checked and bugs_last_updated
\* hold a time, or 0 while there has been no check or update.
DefaultConf ==
    [k \in Topics \cup {"alert_bubble_timeout", "enable_autoupdate",
                        "bugs_last_checked", "bugs_last_updated"} |->
        CASE k = "alert_bubble_timeout" -> 15
          [] k \in {"bugs_last_checked", "bugs_last_updated"} -> 0
          [] OTHER -> TRUE]

\* A store whose user has switched the automatic library update off.
ManualUpdates(c) == [c EXCEPT !["enable_autoupdate"] = FALSE]

\* accounts.buildUserSettings(): the settings of the store, by key.
BuildUserSettings(s) ==
    [k \in {SettingKeys[i] : i \in DOMAIN SettingKeys} |-> s.conf[k]]

\* JSON.stringify of a settings object: one token for each key, in key order
\* (true is 1, false is 0, a number is itself).
Stringify(settings) ==
    [i \in DOMAIN SettingKeys |->
        LET v == settings[SettingKeys[i]]
        IN IF SettingKeys[i] \in Topics THEN (IF v THEN 1 ELSE 0) ELSE v]

\* JSON.parse succeeds on the text: it has a token for each key, a boolean one
\* for each switch.
Parseable(text) ==
    /\ Len(text) = Len(SettingKeys)
    /\ \A i \in DOMAIN text :
        SettingKeys[i] \in Topics => text[i] \in {0, 1}

\* JSON.parse of a parseable text: the settings object.
Parse(text) ==
    [k \in {SettingKeys[i] : i \in DOMAIN SettingKeys} |->
        LET i == CHOOSE j \in DOMAIN SettingKeys : SettingKeys[j] = k
        IN IF k \in Topics THEN text[i] = 1 ELSE text[i]]

\* common.hashCode(str): the 32-bit string hash, over the tokens of the text.
\* A text of Len(SettingKeys) tokens hashes below 2^31, so the 32-bit wrap
\* never happens on the texts used here.
RECURSIVE HashCode(_)
HashCode(text) ==
    IF text = <<>> THEN 0
    ELSE 31 * HashCode(SubSeq(text, 1, Len(text) - 1)) + text[Len(text)]

\* A variant of the backup below whose hash is taken over the text before its
\* last setting.
MakeBackup_HashOfPrefix(settings) ==
    [hash |-> HashCode(SubSeq(Stringify(settings), 1, Len(SettingKeys) - 1)),
     text |-> Stringify(settings)]

\* The backup getSettingsForExport builds: the text of the settings with the
\* hash of that text.
MakeBackup(settings) ==
    [hash |-> HashCode(Stringify(settings)), text |-> Stringify(settings)]

\* The check importFile makes of a message: it parses, and its hash field is
\* the hash of its settings put back into text.
IntegrityOk(file) ==
    /\ Parseable(file.text)
    /\ file.hash = HashCode(Stringify(Parse(file.text)))

\* panelData.set(data): every setting of data is written to the store, in key
\* order.
RECURSIVE PanelDataSetFrom(_, _, _)
PanelDataSetFrom(s, data, i) ==
    IF i > Len(SettingKeys) THEN s
    ELSE PanelDataSetFrom(ConfSet(s, SettingKeys[i], data[SettingKeys[i]]), data, i + 1)

PanelDataSet(s, data) == PanelDataSetFrom(s, data, 1)

\* The data importFile hands to panelData.set(): the settings of the file with
\* alert_bubble_timeout brought down to 30.
ImportData(file) ==
    [Parse(file.text) EXCEPT !.alert_bubble_timeout = IF @ > 30 THEN 30 ELSE @]

\* ------------------------------------------------------------- the router
\* ------------------------------------------------ tracker library updates
\* autoUpdateBugDb() at time t: whether it calls checkLibraryVersion().
AutoUpdateBugDb(s, t) ==
    /\ s.conf["enable_autoupdate"]
    /\ \/ s.conf["bugs_last_checked"] = 0
       \/ t > s.conf["bugs_last_checked"] + AutoUpdateAge

\* What bugDb.update() may hand to its callback.
CheckResults == {[success |-> FALSE, updated |-> FALSE],
                 [success |-> TRUE, updated |-> FALSE],
                 [success |-> TRUE, updated |-> TRUE]}

\* checkLibraryVersion(), the callback of bugDb.update(), at time t.
BugDbUpdated(s, result, t) ==
    IF result.success
    THEN LET checked == ConfSet(s, "bugs_last_checked", t)
         IN IF result.updated THEN ConfSet(checked, "bugs_last_updated", t) ELSE checked
    ELSE s

\* A variant of the catch below that notes the time of the check.
VersionCheckFailed_Stamps(s, t) == ConfSet(s, "bugs_last_checked", t)

\* checkLibraryVersion(), the catch of utils.getJson(): reject(failed).
VersionCheckFailed(s, t) == s

KnownOrigins == {"platform_pages", "purplebox", "ghostery_dot_com", "notifications",
                 "click_to_play", "blocked_redirect"}

NoMsg == [origin |-> "", name |-> "", messageId |-> FALSE, tab |-> FALSE,
          file |-> NoFile, ret |-> "none", route |-> "direct",
          canCall |-> FALSE, cbSync |-> 0, cbLate |-> 0, wait |-> "none"]

\* The callback onMessageHandler ends up holding can be called: the one the
\* sender supplied, or the follow-up message wrapper that replaces it on Edge.
CanCall(req) == req.hasCallback \/ (IS_EDGE /\ req.hasMessageId)

\* A variant of the response path below that always addresses the tab.
RouteOf_AlwaysTab(req) ==
    IF IS_EDGE /\ req.hasMessageId THEN "tab" ELSE "direct"

\* Where a response goes: the direct callback, or on Edge with a messageId a
\* follow-up message to the sender's tab or to the panel.
RouteOf(req) ==
    IF IS_EDGE /\ req.hasMessageId
    THEN IF req.hasTab THEN "tab" ELSE "panel"
    ELSE "direct"

\* What one run of a handler leaves: its return value, the callback calls it
\* made before returning, the asynchronous operation it waits for, and what it
\* wrote to the store: nothing, one setting as <<key, value>>, the data of an
\* accepted import as <<"import", data>>, or <<"importError">> for an import
\* it refused.
Result(ret, cb, wait, write) == [ret |-> ret, cb |-> cb, wait |-> wait, write |-> write]

\* A handler that calls callback() once and then returns ret: without a
\* callable callback the call throws and the handler never returns.
CallThenReturn(req, ret, write) ==
    IF CanCall(req) THEN Result(ret, 1, "none", write) ELSE Result("throw", 0, "none", write)

\* A variant of the handler below that knows the action 'once' only.
HandleClick2Play_OnceOnly(req) ==
    IF req.name = "processC2P" /\ req.arg = "once"
    THEN CallThenReturn(req, "true", <<>>)
    ELSE Result("undefined", 0, "none", <<>>)

\* handlePurplebox: updateAlertConf stores the purple box settings it is sent.
HandlePurplebox(req) ==
    IF req.name = "updateAlertConf"
    THEN Result("false", 0, "none", <<"alert_bubble_timeout", req.timeout>>)
    ELSE Result("false", 0, "none", <<>>)

\* A variant of the handler below that does not compare the hash.
HandleNotifications_NoHashCheck(req) ==
    IF req.name = "importFile"
    THEN IF Parseable(req.file.text)
         THEN Result("false", 0, "none", <<"import", ImportData(req.file)>>)
         ELSE Result("false", 0, "none", <<"importError">>)
    ELSE Result("false", 0, "none", <<>>)

\* handleNotifications, which onMessageHandler calls without the callback:
\* importFile checks the file and hands its settings to panelData.set(), or
\* catches the error; either way an 'onFileImported' message is asked for.
HandleNotifications(req) ==
    IF req.name = "importFile"
    THEN IF IntegrityOk(req.file)
         THEN Result("false", 0, "none", <<"import", ImportData(req.file)>>)
         ELSE Result("false", 0, "none", <<"importError">>)
    ELSE Result("false", 0, "none", <<>>)

HandleClick2Play(req) ==
    IF req.name = "processC2P" /\ req.arg \in {"always", "once"}
    THEN CallThenReturn(req, "true", <<>>)
    ELSE Result("undefined", 0, "none", <<>>)

HandleBlockedRedirect(req) ==
    IF req.name = "getBlockedRedirectData"
    THEN CallThenReturn(req, "true", <<>>)
    ELSE Result("false", 0, "none", <<>>)

\* The names whose universal handler starts an asynchronous operation and
\* returns true, with the operation each waits for first.
AsyncNames == {"getPanelData", "getCliqzModuleData", "pullUserSettings",
               "getTrackerDescription", "getLoginInfo", "setLoginInfo",
               "update_database", "getSiteData", "getSettingsForExport",
               "sendVerificationEmail", "showBrowseWindow"}

FirstWait(name) ==
    IF name \in {"getPanelData", "getCliqzModuleData", "getSettingsForExport",
                 "showBrowseWindow"}
    THEN "tab" ELSE "promise"

\* A variant of the handler below that returns false.
StartAsync_ReturnsFalse(name) == Result("false", 0, FirstWait(name), <<>>)

\* Such a handler: the operation is started and the handler returns true.
StartAsync(name) == Result("true", 0, FirstWait(name), <<>>)

\* The universal events whose handler returns false.
FalseNames == {"skipSetup", "closeSetup", "openNewTab", "reloadTab", "ping"}

\* A variant of the universal lookup below that answers the names it does not
\* know through the callback.
HandleUniversal_AnswersUnknown(req) ==
    CASE req.name = "updateDataCollection" ->
            Result("undefined", 0, "none",
                   IF ~IS_CLIQZ /\ ~IS_EDGE THEN <<"enable_human_web", req.val>> ELSE <<>>)
      [] req.name = "updateAntiTrack" ->
            Result("undefined", 0, "none", <<"enable_anti_tracking", req.val>>)
      [] req.name = "updateAdBlock" ->
            Result("undefined", 0, "none", <<"enable_ad_block", req.val>>)
      [] req.name = "setPanelData" ->
            CallThenReturn(req, "false", <<req.arg, req.val>>)
      [] req.name \in AsyncNames -> StartAsync(req.name)
      [] req.name \in FalseNames -> Result("false", 0, "none", <<>>)
      [] OTHER -> CallThenReturn(req, "false", <<>>)

\* HANDLE UNIVERSAL EVENTS HERE (NO ORIGIN LISTED ABOVE)
HandleUniversal(req) ==
    CASE req.name = "updateDataCollection" ->
            Result("undefined", 0, "none",
                   IF ~IS_CLIQZ /\ ~IS_EDGE THEN <<"enable_human_web", req.val>> ELSE <<>>)
      [] req.name = "updateAntiTrack" ->
            Result("undefined", 0, "none", <<"enable_anti_tracking", req.val>>)
      [] req.name = "updateAdBlock" ->
            Result("undefined", 0, "none", <<"enable_ad_block", req.val>>)
      [] req.name = "setPanelData" ->
            CallThenReturn(req, "false", <<req.arg, req.val>>)
      [] req.name \in AsyncNames -> StartAsync(req.name)
      [] req.name \in FalseNames -> Result("false", 0, "none", <<>>)
      [] OTHER -> Result("undefined", 0, "none", <<>>)

\* A variant of the router below that looks a universal name up before the
\* origin.
OnMessageHandler_NameFirst(req) ==
    IF req.fromCliqz THEN Result("undefined", 0, "none", <<>>)
    ELSE IF req.name \in {"updateDataCollection", "updateAntiTrack", "updateAdBlock",
                          "setPanelData"} \cup AsyncNames \cup FalseNames
    THEN HandleUniversal(req)
    ELSE CASE req.origin \in {"platform_pages", "ghostery_dot_com"} ->
                Result("false", 0, "none", <<>>)
           [] req.origin = "purplebox" -> HandlePurplebox(req)
           [] req.origin = "notifications" -> HandleNotifications(req)
           [] req.origin = "page_performance" /\ req.name = "recordPageInfo" ->
                Result("false", 0, "none", <<>>)
           [] req.origin = "click_to_play" -> HandleClick2Play(req)
           [] req.origin = "blocked_redirect" -> HandleBlockedRedirect(req)
           [] OTHER -> HandleUniversal(req)

\* onMessageHandler(request, sender, callback)
OnMessageHandler(req) ==
    IF req.fromCliqz THEN Result("undefined", 0, "none", <<>>)
    ELSE CASE req.origin \in {"platform_pages", "ghostery_dot_com"} ->
                Result("false", 0, "none", <<>>)
           [] req.origin = "purplebox" -> HandlePurplebox(req)
           [] req.origin = "notifications" -> HandleNotifications(req)
           [] req.origin = "page_performance" /\ req.name = "recordPageInfo" ->
                Result("false", 0, "none", <<>>)
           [] req.origin = "click_to_play" -> HandleClick2Play(req)
           [] req.origin = "blocked_redirect" -> HandleBlockedRedirect(req)
           [] OTHER -> HandleUniversal(req)

\* chrome.runtime.onMessage delivers a request: the handler runs to its return.
Dispatch(req) ==
    /\ phase # "confInit"
    /\ ~LoadingEndDue
    /\ inputs < MaxInputs
    /\ msg.wait = "none"
    /\ inputs' = inputs + 1
    /\ LET r == OnMessageHandler(req) IN
        /\ msg' = [origin |-> req.origin, name |-> req.name,
                   messageId |-> req.hasMessageId, tab |-> req.hasTab,
                   file |-> req.file, ret |-> r.ret,
                   route |-> RouteOf(req), canCall |-> CanCall(req),
                   cbSync |-> r.cb, cbLate |-> 0,
                   wait |-> r.wait]
        /\ Commit(CASE r.write = <<>> \/ r.write = <<"importError">> -> Cur
                    [] r.write # <<>> /\ r.write[1] = "import" ->
                            PanelDataSet(Cur, r.write[2])
                    [] OTHER -> ConfSet(Cur, r.write[1], r.write[2]))
        /\ notice' = IF r.write # <<>> /\ r.write[1] \in {"import", "importError"}
                      THEN [type |-> IF r.write[1] = "import" THEN "message" ELSE "error",
                            active |-> "none", to |-> "pending"]
                      ELSE notice
    /\ BagCardinality(pending') <= MaxPending \/ req.name = "importFile"
    /\ UNCHANGED <<platformVars, clockVars, disk, startupVars, BACKGROUND_LOADING, abtest, fetching>>

\* A variant of the continuations below in which a failed account request
\* calls back twice.
AfterWait_CatchAlsoCalls(m, ok) ==
    LET drop == [m EXCEPT !.wait = "none"]
        call == IF m.canCall THEN [drop EXCEPT !.cbLate = @ + 1] ELSE drop
    IN CASE m.name = "getPanelData" -> call
         [] m.name = "getCliqzModuleData" ->
              IF m.wait = "tab"
              THEN IF conf["enable_anti_tracking"]
                   THEN IF ok THEN [m EXCEPT !.wait = "promise"] ELSE drop
                   ELSE IF conf["enable_ad_block"] /\ ~ok THEN drop ELSE call
              ELSE call
         [] m.name \in {"pullUserSettings", "getLoginInfo", "setLoginInfo"} ->
              IF ok THEN call ELSE [call EXCEPT !.cbLate = @ + 1]
         [] m.name \in {"getTrackerDescription", "update_database", "getSiteData",
                        "sendVerificationEmail"} ->
              IF ok THEN call ELSE drop
         [] m.name = "getSettingsForExport" ->
              IF m.wait = "tab" /\ ok
              THEN [call EXCEPT !.wait = "inject",
                                !.file = MakeBackup(BuildUserSettings(Cur))]
              ELSE [drop EXCEPT !.cbLate = IF m.wait = "tab" THEN call.cbLate ELSE @]
         [] m.name = "showBrowseWindow" ->
              CASE m.wait = "tab" -> IF ok THEN [m EXCEPT !.wait = "inject"] ELSE call
                [] m.wait = "inject" -> IF ok THEN [m EXCEPT !.wait = "send"] ELSE drop
                [] m.wait = "send" -> call

\* The asynchronous operation the handled message waits for ends, well (ok) or
\* not: the next operation starts, or the callback is called, or nothing more
\* happens, as the handler of that name has it.
AfterWait(m, ok) ==
    LET drop == [m EXCEPT !.wait = "none"]
        call == IF m.canCall THEN [drop EXCEPT !.cbLate = @ + 1] ELSE drop
    IN CASE m.name = "getPanelData" -> call
         [] m.name = "getCliqzModuleData" ->
              IF m.wait = "tab"
              THEN IF conf["enable_anti_tracking"]
                   THEN IF ok THEN [m EXCEPT !.wait = "promise"] ELSE drop
                   ELSE IF conf["enable_ad_block"] /\ ~ok THEN drop ELSE call
              ELSE call
         [] m.name \in {"pullUserSettings", "getLoginInfo", "setLoginInfo"} -> call
         [] m.name \in {"getTrackerDescription", "update_database", "getSiteData",
                        "sendVerificationEmail"} ->
              IF ok THEN call ELSE drop
         [] m.name = "getSettingsForExport" ->
              IF m.wait = "tab" /\ ok
              THEN [call EXCEPT !.wait = "inject",
                                !.file = MakeBackup(BuildUserSettings(Cur))]
              ELSE [drop EXCEPT !.cbLate = IF m.wait = "tab" THEN call.cbLate ELSE @]
         [] m.name = "showBrowseWindow" ->
              CASE m.wait = "tab" -> IF ok THEN [m EXCEPT !.wait = "inject"] ELSE call
                [] m.wait = "inject" -> IF ok THEN [m EXCEPT !.wait = "send"] ELSE drop
                [] m.wait = "send" -> call

\* When the step is the end of the injection an export waited for, the backup
\* is sent to the tab as 'exportFile' and becomes the file the user holds.
\* When it is the end of the checkLibraryVersion() an 'update_database' message
\* waited for, the callback of bugDb.update() has run before.
MsgAsync(ok) ==
    /\ msg.wait # "none"
    /\ msg' = AfterWait(msg, ok)
    /\ disk' = IF msg.name = "getSettingsForExport" /\ msg.wait = "inject" /\ ok
                THEN msg.file ELSE disk
    /\ \E result \in (IF msg.name = "update_database" /\ ok
                      THEN CheckResults ELSE {[success |-> FALSE, updated |-> FALSE]}) :
        /\ Commit(BugDbUpdated(Cur, result, now))
        /\ sinceTick' = [sinceTick EXCEPT !.succeeded = @ \/ result.success]
    /\ UNCHANGED <<platformVars, notice, startupVars, BACKGROUND_LOADING, abtest, fetching,
                   inputs, now, settingsSub, checking>>

\* utils.getActiveTab calls back after an import: the 'onFileImported' message
\* goes to the active tab (the sender's tab or another one), or with no active
\* tab to the sender's tab.
ImportReply(active) ==
    /\ notice.to = "pending"
    /\ notice' = [notice EXCEPT !.active = active,
                                !.to = IF active = "none" THEN "sender" ELSE active]
    /\ UNCHANGED <<platformVars, clockVars, disk, startupVars, BACKGROUND_LOADING, abtest, fetching,
                   conf, modState, pending, atConfig, writtenLoading,
                   HUMAN_WEB_PROCESSING, OFFERS_PROCESSING, ANTI_TRACKING_PROCESSING,
                   AD_BLOCK_PROCESSING, msg, inputs>>

\* ---------------------------------------------------------------- start-up
\* A variant of Promise.all that is resolved as soon as one promise is.
PromiseAll_Any(ps) ==
    IF \E st \in DOMAIN ps : ps[st] = "resolved" THEN "resolved"
    ELSE IF \A st \in DOMAIN ps : ps[st] = "rejected" THEN "rejected"
    ELSE "pending"

\* Promise.all over the two addPipelineStep promises.
PromiseAll(ps) ==
    IF \E st \in DOMAIN ps : ps[st] = "rejected" THEN "rejected"
    ELSE IF \A st \in DOMAIN ps : ps[st] = "resolved" THEN "resolved"
    ELSE "pending"

\* A variant of existingSteps that names the ad-block step whatever its flag.
ExistingSteps_AlwaysAdblocker(antitrackingIsEnabled, adblockerIsEnabled) ==
    [onBeforeRequest |->
        (IF antitrackingIsEnabled THEN <<"antitracking.onBeforeRequest">> ELSE <<>>)
        \o <<"adblocker">>,
     onHeadersReceived |->
        IF antitrackingIsEnabled THEN <<"antitracking.onHeadersReceived">> ELSE <<>>]

\* existingSteps of initialiseWebRequestPipeline, from the two isEnabled flags.
ExistingSteps(antitrackingIsEnabled, adblockerIsEnabled) ==
    [onBeforeRequest |->
        (IF antitrackingIsEnabled THEN <<"antitracking.onBeforeRequest">> ELSE <<>>)
        \o (IF adblockerIsEnabled THEN <<"adblocker">> ELSE <<>>),
     onHeadersReceived |->
        IF antitrackingIsEnabled THEN <<"antitracking.onHeadersReceived">> ELSE <<>>]

\* init(): confData.init() is fulfilled; initializeEventListeners() registers
\* the direct webRequest listeners and the onMessage listener.
ConfDataInitDone ==
    /\ phase = "confInit"
    /\ phase' = "metricsInit"
    /\ directListener' = [st \in Stages |-> TRUE]
    /\ UNCHANGED <<platformVars, clockVars, fileVars, cliqzStartup, dbInit, pipelineInit, step, before,
                   BACKGROUND_LOADING, abtest, fetching, msg, conf, modState, pending,
                   atConfig, writtenLoading, HUMAN_WEB_PROCESSING, OFFERS_PROCESSING,
                   ANTI_TRACKING_PROCESSING, AD_BLOCK_PROCESSING, inputs>>

\* The cliqz.disableModule calls initializeGhosteryModules makes on Edge, for
\* 'offers-v2' and 'human-web' (the one for 'hpn', a module nothing else here
\* touches, is left out).
EdgeDisable(s) ==
    IF IS_EDGE
    THEN DisableModule(DisableModule(s, "offers-v2", "startup", FALSE),
                       "human-web", "startup", FALSE)
    ELSE s

\* initializeGhosteryModules(), its synchronous part: cliqz.start() is called,
\* scheduledTasks() runs once, the dispatcher handlers are subscribed and the
\* database inits start.
InitializeGhosteryModules ==
    /\ phase = "metricsInit"
    /\ phase' = "modules"
    /\ cliqzStartup' = "starting"
    /\ dbInit' = "pending"
    /\ fetching' = IF IS_EDGE THEN fetching ELSE fetching + 1
    /\ Commit(EdgeDisable(Cur))
    /\ UNCHANGED <<platformVars, clockVars, fileVars, pipelineInit, step, before, directListener,
                   BACKGROUND_LOADING, abtest, msg, inputs>>

\* A variant of the reconciliation below that leaves the settings as stored
\* when the install is not an upgrade from version 7.
Reconcile_KeepsSettings(s) ==
    IF JUST_UPGRADED_FROM_7
    THEN LET a == ConfSet(ConfSet(s, "enable_ad_block", FALSE),
                          "enable_anti_tracking", FALSE)
             b == SetCliqzModuleEnabled(a, "antitracking",
                                        a.conf["enable_anti_tracking"], "startup")
             c == SetCliqzModuleEnabled(b, "adblocker",
                                        b.conf["enable_ad_block"], "startup")
             d == SetCliqzModuleEnabled(c, "human-web",
                      IF IS_EDGE THEN FALSE ELSE c.conf["enable_human_web"], "startup")
         IN ConfSet(d, "enable_offers",
                    IF IS_EDGE THEN FALSE ELSE d.modState["offers-v2"] # "disabled")
    ELSE s

\* The settings/module reconciliation that follows a successful pipeline
\* insertion (the .then of Promise.all([initialiseWebRequestPipeline()])).
Reconcile(s) ==
    LET notDisabled(x, mod) == x.modState[mod] # "disabled"
        s3 == IF JUST_UPGRADED_FROM_7
              THEN LET a == ConfSet(ConfSet(s, "enable_ad_block", FALSE),
                                    "enable_anti_tracking", FALSE)
                       b == SetCliqzModuleEnabled(a, "antitracking",
                                                  a.conf["enable_anti_tracking"], "startup")
                       c == SetCliqzModuleEnabled(b, "adblocker",
                                                  b.conf["enable_ad_block"], "startup")
                   IN SetCliqzModuleEnabled(c, "human-web",
                          IF IS_EDGE THEN FALSE ELSE c.conf["enable_human_web"], "startup")
              ELSE LET a == ConfSet(s, "enable_ad_block", notDisabled(s, "adblocker"))
                       b == ConfSet(a, "enable_anti_tracking", notDisabled(a, "antitracking"))
                   IN ConfSet(b, "enable_human_web",
                              IF IS_EDGE THEN FALSE ELSE notDisabled(b, "human-web"))
    IN ConfSet(s3, "enable_offers", IF IS_EDGE THEN FALSE ELSE notDisabled(s3, "offers-v2"))

\* The module states cliqz.start() leaves: the modules of `on` enabled (on Edge
\* too: the disableModule calls made there settle on their own).
Started(on) ==
    [m \in Modules |->
        IF m \in on \/ (m = "message-center" /\ "offers-v2" \in on)
        THEN "enabled" ELSE "disabled"]

\* The module states once loading has ended and the disableModule calls made
\* at start-up on Edge are done.
AfterStartup(on) ==
    [m \in Modules |->
        IF IS_EDGE /\ m \in {"human-web", "offers-v2"} THEN "disabled"
        ELSE Started(on)[m]]

\* A variant of the function below that leaves the direct listeners in place.
InitialiseWebRequestPipeline_KeepsListeners(ms, listeners) ==
    IF pipelineIsDisabled
    THEN [promise |-> "rejected", listeners |-> listeners, before |-> before,
          step |-> step]
    ELSE [promise |-> "pending",
          listeners |-> listeners,
          before |-> ExistingSteps(ms["antitracking"] = "enabled",
                                   ms["adblocker"] = "enabled"),
          step |-> [st \in Stages |-> "pending"]]

\* A variant of the function below that removes the direct listeners before
\* it looks at the isDisabled flag.
InitialiseWebRequestPipeline_RemovesFirst(ms, listeners) ==
    IF pipelineIsDisabled
    THEN [promise |-> "rejected", listeners |-> [st \in Stages |-> FALSE],
          before |-> before, step |-> step]
    ELSE [promise |-> "pending",
          listeners |-> [st \in Stages |-> FALSE],
          before |-> ExistingSteps(ms["antitracking"] = "enabled",
                                   ms["adblocker"] = "enabled"),
          step |-> [st \in Stages |-> "pending"]]

\* initialiseWebRequestPipeline(), given the module states and the listeners
\* registered when it runs: the promise it returns, and what it leaves of the
\* direct listeners, the 'before' lists and the two addPipelineStep promises.
InitialiseWebRequestPipeline(ms, listeners) ==
    IF pipelineIsDisabled
    THEN [promise |-> "rejected", listeners |-> listeners, before |-> before,
          step |-> step]
    ELSE [promise |-> "pending",
          listeners |-> [st \in Stages |-> FALSE],
          before |-> ExistingSteps(ms["antitracking"] = "enabled",
                                   ms["adblocker"] = "enabled"),
          step |-> [st \in Stages |-> "pending"]]

\* cliqz.start() is fulfilled and initialiseWebRequestPipeline() runs. When it
\* rejects at once, cliqzStartup's catch logs it and cliqzStartup is settled
\* (its .then calls abtest.fetch() unless on Edge).
CliqzStarted(on) ==
    /\ phase = "modules" /\ cliqzStartup = "starting"
    /\ Commit([Cur EXCEPT !.modState = Started(on)])
    /\ LET r == InitialiseWebRequestPipeline(Started(on), directListener) IN
        /\ pipelineInit' = r.promise
        /\ directListener' = r.listeners
        /\ before' = r.before
        /\ step' = r.step
        /\ cliqzStartup' = IF r.promise = "rejected" THEN "settled" ELSE "pipeline"
        /\ fetching' = IF r.promise = "rejected" /\ ~IS_EDGE THEN fetching + 1
                        ELSE fetching
    /\ UNCHANGED <<platformVars, clockVars, fileVars, phase, dbInit, BACKGROUND_LOADING, abtest, msg, inputs>>

\* cliqz.start() is rejected: cliqzStartup's catch logs it.
CliqzStartFailed ==
    /\ phase = "modules" /\ cliqzStartup = "starting"
    /\ inputs < MaxInputs
    /\ inputs' = inputs + 1
    /\ cliqzStartup' = "settled"
    /\ fetching' = IF IS_EDGE THEN fetching ELSE fetching + 1
    /\ UNCHANGED <<platformVars, clockVars, fileVars, phase, dbInit, pipelineInit, step, before,
                   directListener, BACKGROUND_LOADING, abtest, msg, conf, modState,
                   pending, atConfig, writtenLoading, HUMAN_WEB_PROCESSING,
                   OFFERS_PROCESSING, ANTI_TRACKING_PROCESSING, AD_BLOCK_PROCESSING>>

\* One addPipelineStep promise settles. When that settles the promise
\* initialiseWebRequestPipeline returned, cliqzStartup goes on: reconciliation
\* after success, the catch after a rejection.
StepSettled(stage, ok) ==
    /\ step[stage] = "pending"
    /\ ~ok => inputs < MaxInputs
    /\ inputs' = IF ok THEN inputs ELSE inputs + 1
    /\ step' = [step EXCEPT ![stage] = IF ok THEN "resolved" ELSE "rejected"]
    /\ pipelineInit' = IF pipelineInit = "pending" THEN PromiseAll(step') ELSE pipelineInit
    /\ IF pipelineInit = "pending" /\ pipelineInit' # "pending"
       THEN /\ cliqzStartup' = "settled"
            /\ fetching' = IF IS_EDGE THEN fetching ELSE fetching + 1
            /\ Commit(IF pipelineInit' = "resolved" THEN Reconcile(Cur) ELSE Cur)
       ELSE /\ UNCHANGED <<cliqzStartup, fetching>>
            /\ Commit(Cur)
    /\ UNCHANGED <<platformVars, clockVars, fileVars, phase, dbInit, before, directListener,
                   BACKGROUND_LOADING, abtest, msg>>

\* The database init() promises settle.
DbInitSettled(ok) ==
    /\ dbInit = "pending"
    /\ ~ok => inputs < MaxInputs
    /\ inputs' = IF ok THEN inputs ELSE inputs + 1
    /\ dbInit' = IF ok THEN "resolved" ELSE "rejected"
    /\ UNCHANGED <<platformVars, clockVars, fileVars, phase, cliqzStartup, pipelineInit, step, before,
                   directListener, BACKGROUND_LOADING, abtest, fetching, msg, conf,
                   modState, pending, atConfig, writtenLoading, HUMAN_WEB_PROCESSING,
                   OFFERS_PROCESSING, ANTI_TRACKING_PROCESSING, AD_BLOCK_PROCESSING>>

\* init(): initializeGhosteryModules() is fulfilled, BACKGROUND_LOADING = false.
LoadingEnd ==
    /\ LoadingEndDue
    /\ phase' = "running"
    /\ BACKGROUND_LOADING' = FALSE
    /\ UNCHANGED <<platformVars, clockVars, fileVars, cliqzStartup, dbInit, pipelineInit, step, before,
                   directListener, abtest, fetching, msg, conf, modState, pending,
                   atConfig, writtenLoading, HUMAN_WEB_PROCESSING, OFFERS_PROCESSING,
                   ANTI_TRACKING_PROCESSING, AD_BLOCK_PROCESSING, inputs>>

\* ----------------------------------------------------------- scheduled work
\* setInterval(scheduledTasks, 1800000) fires: abtest.fetch() is called again,
\* and autoUpdateBugDb().
ScheduledTasks ==
    /\ phase \in {"modules", "running"}
    /\ ~LoadingEndDue
    /\ inputs < MaxInputs
    /\ inputs' = inputs + 1
    /\ fetching' = IF IS_EDGE THEN fetching ELSE fetching + 1
    /\ checking' = IF AutoUpdateBugDb(Cur, now) THEN checking + 1 ELSE checking
    /\ sinceTick' = [attempted |-> AutoUpdateBugDb(Cur, now), fails |-> 0, succeeded |-> FALSE]
    /\ UNCHANGED <<platformVars, now, settingsSub, fileVars, startupVars, BACKGROUND_LOADING, abtest, msg, conf,
                   modState, pending, atConfig, writtenLoading, HUMAN_WEB_PROCESSING,
                   OFFERS_PROCESSING, ANTI_TRACKING_PROCESSING, AD_BLOCK_PROCESSING>>

\* The test sets an abtest.fetch() may bring.
FetchResults == {{}, {"offers", "antitracking_full"}}

\* abtest.fetch() is fulfilled: setupABTests() runs.
AbtestFetched(tests) ==
    /\ fetching > 0
    /\ ~LoadingEndDue
    /\ fetching' = fetching - 1
    /\ abtest' = tests
    /\ Commit(SetupABTests(Cur, tests))
    /\ BagCardinality(pending') <= MaxPending
    /\ UNCHANGED <<platformVars, clockVars, fileVars, startupVars, BACKGROUND_LOADING, msg, inputs>>

\* abtest.fetch() is rejected: the error is logged.
AbtestFetchFailed ==
    /\ fetching > 0
    /\ ~LoadingEndDue
    /\ inputs < MaxInputs
    /\ inputs' = inputs + 1
    /\ fetching' = fetching - 1
    /\ UNCHANGED <<platformVars, clockVars, fileVars, startupVars, BACKGROUND_LOADING, abtest, msg, conf,
                   modState, pending, atConfig, writtenLoading, HUMAN_WEB_PROCESSING,
                   OFFERS_PROCESSING, ANTI_TRACKING_PROCESSING, AD_BLOCK_PROCESSING>>

\* A checkLibraryVersion() that autoUpdateBugDb() called gets its answer: the
\* callback of bugDb.update() runs with the result.
LibraryChecked(result) ==
    /\ checking > 0
    /\ ~LoadingEndDue
    /\ checking' = checking - 1
    /\ Commit(BugDbUpdated(Cur, result, now))
    /\ sinceTick' = IF result.success THEN [sinceTick EXCEPT !.succeeded = TRUE]
                    ELSE [sinceTick EXCEPT !.fails = @ + 1]
    /\ UNCHANGED <<platformVars, fileVars, startupVars, BACKGROUND_LOADING, abtest, fetching,
                   msg, inputs, now, settingsSub>>

\* The utils.getJson() of such a check fails: the error is logged and the
\* promise nobody holds is rejected.
LibraryCheckFailed ==
    /\ checking > 0
    /\ ~LoadingEndDue
    /\ checking' = checking - 1
    /\ Commit(VersionCheckFailed(Cur, now))
    /\ sinceTick' = [sinceTick EXCEPT !.fails = @ + 1]
    /\ UNCHANGED <<platformVars, fileVars, startupVars, BACKGROUND_LOADING, abtest, fetching,
                   msg, inputs, now, settingsSub>>

\* ------------------------------------------------------------ specification
\* JUST_UPGRADED_FROM_7 is read only after a successful pipeline initialisation,
\* so a run with the pipeline module disabled is tried with one value of it.
Init ==
    /\ IS_EDGE \in BOOLEAN /\ IS_CLIQZ \in BOOLEAN /\ ~(IS_EDGE /\ IS_CLIQZ)
    /\ JUST_UPGRADED_FROM_7 \in BOOLEAN
    /\ pipelineIsDisabled \in BOOLEAN
    /\ pipelineIsDisabled => ~JUST_UPGRADED_FROM_7
    /\ HUMAN_WEB_PROCESSING = FALSE
    /\ OFFERS_PROCESSING = FALSE
    /\ ANTI_TRACKING_PROCESSING = FALSE
    /\ AD_BLOCK_PROCESSING = FALSE
    /\ BACKGROUND_LOADING = TRUE
    /\ conf = ManualUpdates(DefaultConf)
    /\ modState = [m \in Modules |-> "disabled"]
    /\ pending = EmptyBag
    /\ phase = "confInit"
    /\ cliqzStartup = "idle"
    /\ dbInit = "idle"
    /\ pipelineInit = "none"
    /\ step = [st \in Stages |-> "none"]
    /\ before = [st \in Stages |-> <<>>]
    /\ directListener = [st \in Stages |-> FALSE]
    /\ abtest = {}
    /\ fetching = 0
    /\ atConfig = <<>>
    /\ writtenLoading = {}
    /\ msg = NoMsg
    /\ inputs = 0
    /\ disk = NoFile
    /\ notice = NoNotice
    /\ ClockInit

\* The messages that write a watched setting.
SettingRequests ==
    {[origin |-> "", name |-> n, arg |-> "", val |-> v, timeout |-> 0, file |-> NoFile,
      fromCliqz |-> FALSE, hasMessageId |-> FALSE, hasTab |-> TRUE, hasCallback |-> TRUE] :
        n \in {"updateDataCollection", "updateAntiTrack", "updateAdBlock"}, v \in BOOLEAN}

\* The sets of modules cliqz.start() may find enabled.
StartSets == {{}, {"antitracking"}, {"adblocker"}, {"human-web", "offers-v2"},
              {"human-web", "offers-v2", "antitracking", "adblocker"}}

StartupNext ==
    \/ ConfDataInitDone
    \/ InitializeGhosteryModules
    \/ \E on \in StartSets : CliqzStarted(on)
    \/ CliqzStartFailed
    \/ \E st \in Stages, ok \in BOOLEAN : StepSettled(st, ok)
    \/ \E ok \in BOOLEAN : DbInitSettled(ok)
    \/ LoadingEnd

Next ==
    \/ StartupNext
    \/ ScheduledTasks
    \/ \E tests \in FetchResults : AbtestFetched(tests)
    \/ AbtestFetchFailed
    \/ \E p \in BagToSet(pending) : Fulfil(p)
    \/ \E p \in BagToSet(pending) : Reject(p)
    \/ \E req \in SettingRequests : Dispatch(req)

Spec == Init /\ [][Next]_vars

\* Start-up with setting messages and fulfilled cliqz calls, under the
\* scheduling of promise continuations: the continuation of init() that clears
\* BACKGROUND_LOADING runs once it is queued.
LiveNext ==
    \/ StartupNext
    \/ \E p \in BagToSet(pending) : Fulfil(p)
    \/ \E req \in SettingRequests : Dispatch(req)

LiveSpec == Init /\ [][LiveNext]_vars /\ WF_vars(LoadingEnd)

\* ------------------------------------------------- the router, on its own
\* The names the universal lookup of onMessageHandler tests for.
UniversalNames ==
    AsyncNames \cup FalseNames \cup
    {"disableShowAlert", "updateDataCollection", "updateDisplayMode", "updateAntiTrack",
     "updateSmartBlock", "updateAdBlock", "updateBlocking", "setPanelData", "setupStep"}

\* The names for which a message of the given origin finds a handler: those
\* its origin group tests for, or with no origin group the universal names.
HandledNames(origin) ==
    CASE origin = "platform_pages" -> {"platformPageLoaded"}
      [] origin = "purplebox" -> {"updateAlertConf"}
      [] origin = "ghostery_dot_com" -> {"appsPageLoaded", "panelSelectedAppsUpdate"}
      [] origin = "page_performance" -> {"recordPageInfo"} \cup UniversalNames
      [] origin = "notifications" -> {"dismissCMPMessage", "cmpMessageShown", "openTab",
                                      "importFile"}
      [] origin = "click_to_play" -> {"processC2P"}
      [] origin = "blocked_redirect" -> {"getBlockedRedirectData",
                                         "allow_always_page_c2p_tracker",
                                         "allow_once_page_c2p_tracker"}
      [] OTHER -> UniversalNames

\* The names tried with each origin: the names its handler group knows, a
\* universal name and a name nothing knows.
NamesOf(origin) ==
    {"updateAdBlock", "noSuchName"} \cup
    CASE origin = "platform_pages" -> {"platformPageLoaded"}
      [] origin = "purplebox" -> {"updateAlertConf"}
      [] origin = "ghostery_dot_com" -> {"appsPageLoaded", "panelSelectedAppsUpdate"}
      [] origin = "page_performance" -> {"recordPageInfo"}
      [] origin = "notifications" -> {"dismissCMPMessage", "cmpMessageShown", "openTab",
                                      "importFile"}
      [] origin = "click_to_play" -> {"processC2P"}
      [] origin = "blocked_redirect" -> {"getBlockedRedirectData",
                                         "allow_always_page_c2p_tracker",
                                         "allow_once_page_c2p_tracker"}
      [] OTHER -> AsyncNames \cup FalseNames \cup
                  {"disableShowAlert", "updateDataCollection", "updateDisplayMode",
                   "updateAntiTrack", "updateSmartBlock", "updateBlocking",
                   "setPanelData", "setupStep"}

\* What the message carries, as far as a handler branches on it.
ArgsOf(name) ==
    CASE name = "processC2P" -> {"always", "once", "other"}
      [] name = "setPanelData" -> Topics
      [] OTHER -> {""}

\* The values tried for the payload of a name that writes it to a setting.
ValsOf(name) ==
    IF name \in {"updateDataCollection", "updateAntiTrack", "updateAdBlock", "setPanelData"}
    THEN BOOLEAN ELSE {FALSE}

\* The alert_bubble_timeout values tried for the message that carries one.
TimeoutsOf(name) == IF name = "updateAlertConf" THEN Timeouts ELSE {0}

\* The senders tried: <<a messageId is present, the sender has a tab>>.
Senders == {<<FALSE, TRUE>>, <<TRUE, TRUE>>, <<TRUE, FALSE>>}

\* Messages of the Cliqz content script are tried under one name.
SourcesOf(name) == IF name = "updateAdBlock" THEN BOOLEAN ELSE {FALSE}

AllRequests ==
    UNION {UNION {{[origin |-> o, name |-> n, arg |-> a, val |-> v, timeout |-> tm,
                    file |-> NoFile, fromCliqz |-> c,
                    hasMessageId |-> sd[1], hasTab |-> sd[2], hasCallback |-> cb] :
                        a \in ArgsOf(n), v \in ValsOf(n), tm \in TimeoutsOf(n),
                        c \in SourcesOf(n),
                        sd \in Senders, cb \in BOOLEAN} : n \in NamesOf(o)} :
           o \in KnownOrigins \cup {"page_performance", "", "panel"}}

\* A background page that has finished loading with settings and modules in
\* agreement, as start-up leaves it when nothing fails.
RouterInit ==
    /\ IS_EDGE \in BOOLEAN /\ IS_CLIQZ \in BOOLEAN /\ ~(IS_EDGE /\ IS_CLIQZ)
    /\ JUST_UPGRADED_FROM_7 = FALSE
    /\ pipelineIsDisabled = FALSE
    /\ HUMAN_WEB_PROCESSING = FALSE
    /\ OFFERS_PROCESSING = FALSE
    /\ ANTI_TRACKING_PROCESSING = FALSE
    /\ AD_BLOCK_PROCESSING = FALSE
    /\ BACKGROUND_LOADING = FALSE
    /\ \E on \in StartSets :
        /\ modState = AfterStartup(on)
        /\ conf = [k \in DOMAIN DefaultConf |->
                    IF k \in Topics THEN AfterStartup(on)[StatusModuleOf(k)] = "enabled"
                    ELSE ManualUpdates(DefaultConf)[k]]
        /\ before = ExistingSteps(AfterStartup(on)["antitracking"] = "enabled",
                                  AfterStartup(on)["adblocker"] = "enabled")
    /\ pending = EmptyBag
    /\ phase = "running"
    /\ cliqzStartup = "settled"
    /\ dbInit = "resolved"
    /\ pipelineInit = "resolved"
    /\ step = [st \in Stages |-> "resolved"]
    /\ directListener = [st \in Stages |-> FALSE]
    /\ abtest = {}
    /\ fetching = 0
    /\ atConfig = <<>>
    /\ writtenLoading = Topics
    /\ msg = NoMsg
    /\ inputs = 0
    /\ disk = NoFile
    /\ notice = NoNotice
    /\ ClockInit

RouterNext ==
    \/ \E req \in AllRequests : inputs < MaxRouted /\ Dispatch(req)
    \/ \E ok \in BOOLEAN : MsgAsync(ok)
    \/ \E active \in {"sender", "other", "none"} : ImportReply(active)
    \/ \E p \in BagToSet(pending) : Fulfil(p)

RouterSpec == RouterInit /\ [][RouterNext]_vars

\* ------------------------------------------- the debounced subscription
\* The function _.debounce(func, 200) returns, called at time t: the call is
\* noted and the timeout is set anew. Of the record, timeout is the time the
\* timeout is set for, fired counts the calls func has not answered yet, first
\* and last are the times of the first and the latest of them, inits counts
\* the runs of func, which calls panelData.init(), and burst is the number of
\* calls its last run answered.
Debounced_Immediate(d, t) ==
    [d EXCEPT !.timeout = t + DebounceWait, !.fired = @ + 1, !.last = t,
              !.first = IF d.fired = 0 THEN t ELSE @,
              !.inits = IF d.timeout = NoTimer THEN @ + 1 ELSE @,
              !.burst = IF d.timeout = NoTimer THEN 1 ELSE @]

Debounced(d, t) ==
    [d EXCEPT !.timeout = t + DebounceWait, !.fired = @ + 1, !.last = t,
              !.first = IF d.fired = 0 THEN t ELSE @]

\* The timeout runs: func is called with the arguments of the latest call.
Later(d) ==
    [d EXCEPT !.timeout = NoTimer, !.fired = 0, !.inits = @ + 1, !.burst = d.fired]

\* dispatcher.trigger('conf.changed.settings', key) reaches the subscription.
SettingsChanged ==
    /\ settingsSub.fired < MaxBurst
    /\ settingsSub' = Debounced(settingsSub, now)
    /\ UNCHANGED <<platformVars, fileVars, startupVars, BACKGROUND_LOADING, abtest, fetching,
                   conf, modState, pending, atConfig, writtenLoading,
                   HUMAN_WEB_PROCESSING, OFFERS_PROCESSING, ANTI_TRACKING_PROCESSING,
                   AD_BLOCK_PROCESSING, msg, inputs, now, checking, sinceTick>>

\* The timeout of the subscription is due and its callback runs.
PanelDataInit ==
    /\ settingsSub.timeout # NoTimer /\ now >= settingsSub.timeout
    /\ settingsSub' = Later(settingsSub)
    /\ UNCHANGED <<platformVars, fileVars, startupVars, BACKGROUND_LOADING, abtest, fetching,
                   conf, modState, pending, atConfig, writtenLoading,
                   HUMAN_WEB_PROCESSING, OFFERS_PROCESSING, ANTI_TRACKING_PROCESSING,
                   AD_BLOCK_PROCESSING, msg, inputs, now, checking, sinceTick>>

\* Time passes: d milliseconds, up to the time limit.
Advance(d, limit) ==
    /\ now + d <= limit
    /\ now' = now + d
    /\ UNCHANGED <<platformVars, fileVars, startupVars, BACKGROUND_LOADING, abtest, fetching,
                   conf, modState, pending, atConfig, writtenLoading,
                   HUMAN_WEB_PROCESSING, OFFERS_PROCESSING, ANTI_TRACKING_PROCESSING,
                   AD_BLOCK_PROCESSING, msg, inputs, settingsSub, checking, sinceTick>>

\* A background page that has finished loading.
DebounceInit ==
    /\ RouterInit
    /\ ~IS_EDGE /\ ~IS_CLIQZ
    /\ modState = Started({})

DebounceNext ==
    \/ SettingsChanged
    \/ PanelDataInit
    \/ Advance(DebounceWait \div 2, TaskInterval + MaxWaits * DebounceWait)

DebounceSpec == DebounceInit /\ [][DebounceNext]_vars

\* ------------------------------------------------ scheduled update runs
\* The 'update_database' message of the panel.
UpdateRequests ==
    {[origin |-> "panel", name |-> "update_database", arg |-> "", val |-> FALSE,
      timeout |-> 0, file |-> NoFile, fromCliqz |-> FALSE,
      hasMessageId |-> FALSE, hasTab |-> FALSE, hasCallback |-> TRUE]}

\* A background page that has finished loading, with automatic updates on or
\* off and the last check never made, 15 minutes back, or 30 minutes back.
UpdateInit ==
    /\ IS_EDGE \in BOOLEAN /\ IS_CLIQZ = FALSE
    /\ JUST_UPGRADED_FROM_7 = FALSE
    /\ pipelineIsDisabled = FALSE
    /\ HUMAN_WEB_PROCESSING = FALSE
    /\ OFFERS_PROCESSING = FALSE
    /\ ANTI_TRACKING_PROCESSING = FALSE
    /\ AD_BLOCK_PROCESSING = FALSE
    /\ BACKGROUND_LOADING = FALSE
    /\ modState = AfterStartup({"human-web", "offers-v2", "antitracking", "adblocker"})
    /\ \E auto \in BOOLEAN, checked \in {0, TaskInterval - AutoUpdateAge, AutoUpdateAge \div 3} :
        conf = [DefaultConf EXCEPT !["enable_autoupdate"] = auto,
                                   !["bugs_last_checked"] = checked,
                                   !["bugs_last_updated"] = checked]
    /\ before = ExistingSteps(TRUE, TRUE)
    /\ pending = EmptyBag
    /\ phase = "running"
    /\ cliqzStartup = "settled"
    /\ dbInit = "resolved"
    /\ pipelineInit = "resolved"
    /\ step = [st \in Stages |-> "resolved"]
    /\ directListener = [st \in Stages |-> FALSE]
    /\ abtest = {}
    /\ fetching = 0
    /\ atConfig = <<>>
    /\ writtenLoading = Topics
    /\ msg = NoMsg
    /\ inputs = 0
    /\ disk = NoFile
    /\ notice = NoNotice
    /\ ClockInit

UpdateNext ==
    \/ ScheduledTasks
    \/ Advance(AutoUpdateAge, TaskInterval + MaxIntervals * TaskInterval)
    \/ \E result \in CheckResults : LibraryChecked(result)
    \/ LibraryCheckFailed
    \/ \E req \in UpdateRequests : Dispatch(req)
    \/ \E ok \in BOOLEAN : MsgAsync(ok)
    \/ \E tests \in FetchResults : AbtestFetched(tests)
    \/ AbtestFetchFailed
    \/ \E p \in BagToSet(pending) : Fulfil(p)

UpdateSpec == UpdateInit /\ [][UpdateNext]_vars

\* --------------------------------------------------------- A/B test runs
\* A page that has finished loading, where abtest.fetch() may bring any set of
\* tests and messages change the settings.
TestsNext ==
    \/ ScheduledTasks
    \/ \E tests \in SUBSET Tests : AbtestFetched(tests)
    \/ AbtestFetchFailed
    \/ \E req \in SettingRequests : Dispatch(req)
    \/ \E p \in BagToSet(pending) : Fulfil(p)

TestsSpec == RouterInit /\ [][TestsNext]_vars

\* ------------------------------------------------- export and import runs
\* The stores a backup file the user already holds was exported from.
ExportedStores ==
    {[k \in DOMAIN DefaultConf |-> IF k \in Topics THEN k \in on ELSE tm] :
        on \in {{"enable_anti_tracking"}, Topics}, tm \in Timeouts}

\* What can arrive as the importFile message when the user holds file d: the
\* file as exported, the file with its hash field altered, with one setting
\* altered under the old hash, and a text that does not parse.
FilesFrom(d) ==
    {d, [d EXCEPT !.hash = d.hash + 1], [d EXCEPT !.text = <<>>]} \cup
    (IF d.text = <<>> THEN {} ELSE {[d EXCEPT !.text[1] = 1 - d.text[1]]})

FileRequests(d) ==
    {[origin |-> "panel", name |-> "getSettingsForExport", arg |-> "", val |-> FALSE,
      timeout |-> 0, file |-> NoFile, fromCliqz |-> FALSE,
      hasMessageId |-> FALSE, hasTab |-> FALSE, hasCallback |-> TRUE]} \cup
    {[origin |-> "notifications", name |-> "importFile", arg |-> "", val |-> FALSE,
      timeout |-> 0, file |-> f, fromCliqz |-> FALSE,
      hasMessageId |-> FALSE, hasTab |-> TRUE, hasCallback |-> FALSE] : f \in FilesFrom(d)} \cup
    {[origin |-> "purplebox", name |-> "updateAlertConf", arg |-> "", val |-> FALSE,
      timeout |-> tm, file |-> NoFile, fromCliqz |-> FALSE,
      hasMessageId |-> FALSE, hasTab |-> TRUE, hasCallback |-> FALSE] : tm \in Timeouts}

\* A background page that has finished loading, with any of the stores above
\* or none behind the file the user holds.
FileInit ==
    /\ IS_EDGE = FALSE /\ IS_CLIQZ = FALSE
    /\ JUST_UPGRADED_FROM_7 = FALSE
    /\ pipelineIsDisabled = FALSE
    /\ HUMAN_WEB_PROCESSING = FALSE
    /\ OFFERS_PROCESSING = FALSE
    /\ ANTI_TRACKING_PROCESSING = FALSE
    /\ AD_BLOCK_PROCESSING = FALSE
    /\ BACKGROUND_LOADING = FALSE
    /\ \E on \in StartSets :
        /\ modState = Started(on)
        /\ conf = [k \in DOMAIN DefaultConf |->
                    IF k \in Topics THEN Started(on)[StatusModuleOf(k)] = "enabled"
                    ELSE ManualUpdates(DefaultConf)[k]]
        /\ before = ExistingSteps(Started(on)["antitracking"] = "enabled",
                                  Started(on)["adblocker"] = "enabled")
    /\ pending = EmptyBag
    /\ phase = "running"
    /\ cliqzStartup = "settled"
    /\ dbInit = "resolved"
    /\ pipelineInit = "resolved"
    /\ step = [st \in Stages |-> "resolved"]
    /\ directListener = [st \in Stages |-> FALSE]
    /\ abtest = {}
    /\ fetching = 0
    /\ atConfig = <<>>
    /\ writtenLoading = Topics
    /\ msg = NoMsg
    /\ inputs = 0
    /\ disk \in {NoFile} \cup {MakeBackup(st) : st \in ExportedStores}
    /\ notice = NoNotice
    /\ ClockInit

FileNext ==
    \/ \E req \in FileRequests(disk) : Dispatch(req)
    \/ \E ok \in BOOLEAN : MsgAsync(ok)
    \/ \E active \in {"sender", "other", "none"} : ImportReply(active)
    \/ \E p \in BagToSet(pending) : Fulfil(p)

FileSpec == FileInit /\ [][FileNext]_vars

\* ------------------------------------------------------------- properties
\* The enableModule calls for module mod that are still pending in bag.
EnableCalls(bag, mod) ==
    LET hit == {p \in BagToSet(bag) : p.op = "enable" /\ p.mod = mod}
    IN BagCardinality([p \in hit |-> bag[p]])

\* Those among them that the handler of conf.save.<topic> made.
EnableCallsOf(bag, topic) ==
    LET hit == {p \in BagToSet(bag) :
                    p.op = "enable" /\ p.mod = ModuleOf(topic) /\ p.src = topic}
    IN BagCardinality([p \in hit |-> bag[p]])

\* The transition guard of a topic.
GuardOf(topic) ==
    CASE topic = "enable_human_web" -> HUMAN_WEB_PROCESSING
      [] topic = "enable_offers" -> OFFERS_PROCESSING
      [] topic = "enable_anti_tracking" -> ANTI_TRACKING_PROCESSING
      [] topic = "enable_ad_block" -> AD_BLOCK_PROCESSING

\* This step is the router taking a message that writes value to conf.<topic>.
Writes(topic, value) ==
    /\ inputs' = inputs + 1
    /\ \E req \in SettingRequests :
        /\ OnMessageHandler(req).write = <<topic, value>>
        /\ Dispatch(req)

Range(seq) == {seq[i] : i \in DOMAIN seq}

\* C1: for each of the four topics, the change events that fire while an
\* enableModule call made for the topic is still outstanding make no second
\* one: at no time are two enableModule calls of one topic's handler pending.
C1_OneEnableOutstanding ==
    \A t \in Topics : EnableCallsOf(pending, t) <= 1

\* C2 as stated: a message that sets enable_ad_block to true while
\* BACKGROUND_LOADING and AD_BLOCK_PROCESSING are false adds exactly one
\* enableModule call for the ad-block module, and the fulfilment of such a
\* call leaves AD_BLOCK_PROCESSING false.
C2_AdBlockEnableOnce ==
    [][/\ (Writes("enable_ad_block", TRUE) /\ ~BACKGROUND_LOADING /\ ~AD_BLOCK_PROCESSING)
            => EnableCalls(pending', "adblocker") = EnableCalls(pending, "adblocker") + 1
       /\ \A p \in BagToSet(pending) :
            (p.src = "enable_ad_block" /\ p.op = "enable" /\ Fulfil(p))
                => ~AD_BLOCK_PROCESSING']_vars

\* C2, amended: the same when the host is not the Cliqz browser; on the Cliqz
\* browser the write makes no enableModule call at all.
C2_AdBlockEnableOnceNotCliqz ==
    [][/\ (Writes("enable_ad_block", TRUE) /\ ~BACKGROUND_LOADING /\ ~AD_BLOCK_PROCESSING)
            => EnableCalls(pending', "adblocker") =
                    EnableCalls(pending, "adblocker") + (IF IS_CLIQZ THEN 0 ELSE 1)
       /\ \A p \in BagToSet(pending) :
            (p.src = "enable_ad_block" /\ p.op = "enable" /\ Fulfil(p))
                => ~AD_BLOCK_PROCESSING']_vars

\* The ad-block module, disabled when the pipeline steps were inserted, is
\* enabled: the one enableModule call a message made after loading is fulfilled.
C2_Witness ==
    /\ ~IS_CLIQZ /\ ~JUST_UPGRADED_FROM_7 /\ ~BACKGROUND_LOADING /\ ~AD_BLOCK_PROCESSING
    /\ pipelineInit = "resolved"
    /\ "adblocker" \notin Range(before["onBeforeRequest"])
    /\ msg.name = "updateAdBlock"
    /\ pending = EmptyBag
    /\ modState["adblocker"] = "enabled"

\* C3: while BACKGROUND_LOADING is true no cliqz call made by a change-event
\* handler exists: every pending enableModule, isReady or disableModule call is
\* one that start-up itself made, and no guard is set.
C3_NoTransitionWhileLoading ==
    BACKGROUND_LOADING =>
        /\ \A p \in BagToSet(pending) : p.src = "startup"
        /\ \A t \in Topics : ~GuardOf(t)

\* Loading is still going on, the handlers are subscribed, and a message has
\* changed enable_anti_tracking after the reconciliation.
C3_Witness ==
    /\ BACKGROUND_LOADING /\ DispatcherOn /\ ~JUST_UPGRADED_FROM_7
    /\ pipelineInit = "resolved"
    /\ msg.name = "updateAntiTrack"
    /\ conf["enable_anti_tracking"] # (modState["antitracking"] # "disabled")

\* C4: when loading ends after a successful pipeline initialisation and with
\* no start-up call pending, every setting written during loading agrees with
\* the state of its module.
C4_StateMatchesLastWrite ==
    [][(LoadingEnd /\ pipelineInit = "resolved" /\ pending = EmptyBag) =>
            \A t \in writtenLoading :
                conf[t] = (modState[StatusModuleOf(t)] = "enabled")]_vars

\* C5: every disableModule call is made in the continuation of the module's
\* isReady().
C5_DisableAfterReady ==
    \A p \in BagToSet(pending) : p.op = "disable" => p.afterReady

\* C6: when a cliqz call made for a topic is rejected, the guard of the topic
\* is clear afterwards.
C6_GuardClearedOnFailure ==
    [][\A p \in BagToSet(pending) :
            (p.src \in Topics /\ Reject(p)) => ~GuardOf(p.src)']_vars

\* C7: while the pipeline steps are being inserted, each stage's 'before' list
\* names exactly the steps of the enabled modules, each once: anti-tracking's
\* in both stages, ad-block's in onBeforeRequest only.
C7_BeforeListsEnabledOnly ==
    cliqzStartup = "pipeline" =>
        LET at == modState["antitracking"] = "enabled"
            ab == modState["adblocker"] = "enabled"
            want == [onBeforeRequest |->
                        {n \in {"antitracking.onBeforeRequest"} : at}
                        \cup {n \in {"adblocker"} : ab},
                     onHeadersReceived |->
                        {n \in {"antitracking.onHeadersReceived"} : at}]
        IN \A st \in Stages :
            /\ Range(before[st]) = want[st]
            /\ Len(before[st]) = Cardinality(want[st])

\* Insertion with anti-tracking enabled and ad-block disabled.
C7_Witness ==
    /\ cliqzStartup = "pipeline"
    /\ modState["antitracking"] = "enabled"
    /\ modState["adblocker"] = "disabled"
    /\ before["onBeforeRequest"] = <<"antitracking.onBeforeRequest">>

\* C8: the promise initialiseWebRequestPipeline returned is rejected when the
\* webrequest-pipeline module is disabled; otherwise it is resolved exactly
\* when both addPipelineStep promises are resolved and rejected exactly when
\* one of them is rejected.
C8_PipelinePromise ==
    pipelineInit # "none" =>
        IF pipelineIsDisabled
        THEN pipelineInit = "rejected"
        ELSE /\ pipelineInit = "resolved" <=> \A st \in Stages : step[st] = "resolved"
             /\ pipelineInit = "rejected" <=> \E st \in Stages : step[st] = "rejected"

\* One insertion succeeded, the other failed, and the promise is rejected.
C8_Witness ==
    /\ ~pipelineIsDisabled
    /\ step["onBeforeRequest"] = "resolved"
    /\ step["onHeadersReceived"] = "rejected"
    /\ pipelineInit = "rejected"

\* C9: with the webrequest-pipeline module disabled, Ghostery's direct
\* listeners stay registered on both stages once initializeEventListeners has
\* added them, through the failed pipeline initialisation and after.
C9_DirectListenersRemain ==
    (pipelineIsDisabled /\ phase # "confInit") =>
        \A st \in Stages : directListener[st]

\* The pipeline initialisation has been rejected and loading has ended.
C9_Witness ==
    /\ pipelineIsDisabled
    /\ pipelineInit = "rejected"
    /\ phase = "running"
    /\ \A st \in Stages : directListener[st]

\* C10: when onMessageHandler returned anything but true, the callback is not
\* called after the return and no operation that would call it is under way.
C10_NoLateCallback ==
    msg.ret # "true" => (msg.cbLate = 0 /\ msg.wait = "none")

\* setPanelData: the callback was called before the handler returned false.
C10_Witness ==
    /\ msg.name = "setPanelData"
    /\ msg.ret = "false"
    /\ msg.cbSync = 1
    /\ msg.cbLate = 0

\* The state a message handler can change, apart from the record of the
\* message itself.
handlerVars == <<conf, modState, pending, atConfig, writtenLoading,
                 HUMAN_WEB_PROCESSING, OFFERS_PROCESSING, ANTI_TRACKING_PROCESSING,
                 AD_BLOCK_PROCESSING>>

\* This step is the router taking a message (in RouterSpec no other step takes
\* an input).
Routed == inputs' = inputs + 1

C12_OriginFirst ==
    [][Routed =>
        /\ (msg'.origin \in KnownOrigins /\ msg'.name \in UniversalNames) =>
                /\ UNCHANGED handlerVars
                /\ msg'.cbSync = 0 /\ msg'.wait = "none"
                /\ msg'.ret # "true"
        /\ (msg'.origin \notin KnownOrigins /\ msg'.name = "setPanelData" /\ msg'.canCall) =>
                msg'.cbSync = 1 /\ msg'.ret = "false"]_vars

\* The purplebox group took a message named updateAdBlock.
C12_Witness ==
    /\ msg.origin = "purplebox" /\ msg.name = "updateAdBlock"
    /\ msg.ret = "false" /\ msg.cbSync = 0
    /\ pending = EmptyBag

\* The click_to_play messages named processC2P whose action is 'always' or 'once'.
C2PRequests ==
    {req \in AllRequests :
        /\ req.origin = "click_to_play" /\ req.name = "processC2P"
        /\ req.arg \in {"always", "once"} /\ ~req.fromCliqz}

\* C13 as stated: such a message makes onMessageHandler return true exactly
\* when the sender supplied a callback, which is then called once before the
\* return.
C13_C2PTrueWithCallback ==
    [][\A req \in C2PRequests :
            (Routed /\ msg'.name = "processC2P" /\ Dispatch(req)) =>
                /\ msg'.ret = "true" <=> req.hasCallback
                /\ req.hasCallback => msg'.cbSync = 1]_vars

\* C13, amended: it returns true exactly when the callback it holds can be
\* called, the sender's or on Edge with a messageId the follow-up message that
\* replaces it, and has then called it once; with no callable callback the
\* call throws and nothing is returned.
C13_C2PTrueWithCallable ==
    [][\A req \in C2PRequests :
            (Routed /\ msg'.name = "processC2P" /\ Dispatch(req)) =>
                /\ msg'.ret = "true" <=> CanCall(req)
                /\ CanCall(req) => msg'.cbSync = 1
                /\ ~CanCall(req) => (msg'.ret = "throw" /\ msg'.cbSync = 0)
                /\ msg'.wait = "none"]_vars

\* processC2P was answered through the sender's own callback.
C13_Witness ==
    /\ msg.origin = "click_to_play" /\ msg.name = "processC2P"
    /\ msg.route = "direct"
    /\ msg.ret = "true" /\ msg.cbSync = 1

\* C14: the responses to a routed message go, on Edge when the message carries
\* a messageId, to a follow-up message addressed to the sender's tab when it
\* has one and to the panel otherwise, and in every other case to the
\* sender's own callback.
C14_EdgeResponsePath ==
    msg.name # "" =>
        msg.route = IF IS_EDGE /\ msg.messageId
                    THEN (IF msg.tab THEN "tab" ELSE "panel")
                    ELSE "direct"

\* On Edge, a response produced after the handler returned went to the panel.
C14_Witness ==
    /\ IS_EDGE /\ msg.messageId /\ ~msg.tab
    /\ msg.route = "panel"
    /\ msg.ret = "true" /\ msg.cbLate = 1

\* C15: an importFile message whose payload does not pass the integrity check
\* (its hash field differs from the hash of its settings, or it does not
\* parse) is rejected: the handler returns normally, no setting changes, and
\* an 'onFileImported' message of type 'error' is asked for and then sent to
\* the sender.
C15_AlteredRejectedToSender ==
    [][/\ (Routed /\ msg'.name = "importFile" /\ msg'.origin = "notifications"
                /\ ~IntegrityOk(msg'.file)) =>
            /\ msg'.ret = "false"
            /\ conf' = conf
            /\ notice'.type = "error" /\ notice'.to = "pending"
       /\ (notice.type = "error" /\ notice.to = "pending" /\ notice'.to # "pending") =>
            notice'.to = "sender"]_vars

\* C15 as amended: the altered payload is refused as above, and the 'error'
\* message goes to the active tab, or to the sender's tab when no tab is active.
C15_AlteredRejected ==
    [][/\ (Routed /\ msg'.name = "importFile" /\ msg'.origin = "notifications"
                /\ ~IntegrityOk(msg'.file)) =>
            /\ msg'.ret = "false"
            /\ conf' = conf
            /\ notice'.type = "error" /\ notice'.to = "pending"
       /\ (notice.type = "error" /\ notice.to = "pending" /\ notice'.to # "pending") =>
            notice'.to = IF notice'.active = "none" THEN "sender" ELSE notice'.active]_vars

\* A file with one setting altered under the old hash was refused, and the
\* answer went to a tab other than the sender's.
C15_Witness ==
    /\ msg.name = "importFile" /\ Parseable(msg.file.text) /\ ~IntegrityOk(msg.file)
    /\ notice.type = "error" /\ notice.to = "other"

C17_OneTrailingInit ==
    [][/\ settingsSub'.inits # settingsSub.inits =>
            /\ settingsSub'.inits = settingsSub.inits + 1
            /\ settingsSub.fired >= 1 /\ settingsSub'.fired = 0
            /\ now >= settingsSub.last + DebounceWait
       /\ settingsSub'.fired > 0 =>
            settingsSub'.timeout = settingsSub'.last + DebounceWait]_vars

\* Three firings, each within 200 ms of the one before, have been answered by
\* the first run of panelData.init, 200 ms after the last of them.
C17_Witness ==
    /\ settingsSub.inits = 1 /\ settingsSub.burst = 3 /\ settingsSub.fired = 0
    /\ settingsSub.last = settingsSub.first + DebounceWait
    /\ now = settingsSub.last + DebounceWait

\* C18: a failure of the check of the library version that scheduledTasks
\* started leaves bugs_last_checked and bugs_last_updated as they were, and
\* when the check of one tick has failed and no check has succeeded since,
\* the next tick, with enable_autoupdate on, starts the check again.
C18_FailureKeepsRetrying ==
    [][/\ sinceTick'.fails = sinceTick.fails + 1 =>
            /\ conf'["bugs_last_checked"] = conf["bugs_last_checked"]
            /\ conf'["bugs_last_updated"] = conf["bugs_last_updated"]
       /\ (inputs' = inputs + 1 /\ msg' = msg /\ fetching' >= fetching
                /\ sinceTick.attempted /\ sinceTick.fails > 0 /\ ~sinceTick.succeeded
                /\ conf["enable_autoupdate"]) =>
            checking' = checking + 1 /\ sinceTick'.attempted]_vars

\* The check of the first tick has failed, time has passed, and the second
\* tick has started the check again.
C18_Witness ==
    /\ inputs = 2 /\ msg = NoMsg /\ IS_EDGE
    /\ conf["enable_autoupdate"] /\ conf["bugs_last_checked"] = 0
    /\ sinceTick.attempted /\ checking = 1
    /\ now > TaskInterval

\* The cliqz calls of bag that the handler of conf.save.<topic> made.
CallsOf(bag, topic) ==
    LET hit == {p \in BagToSet(bag) : p.src = topic}
    IN [p \in hit |-> bag[p]]

\* C19: for each of the four topics the guard flag is true whenever a cliqz
\* call made by the topic's change-event handler is still pending, and a
\* message that writes the topic while its guard is set adds no call of that
\* handler.
C19_GuardWhileInFlight ==
    [][\A t \in Topics :
        /\ CallsOf(pending', t) # EmptyBag => GuardOf(t)'
        /\ (GuardOf(t) /\ \E v \in BOOLEAN : Writes(t, v)) =>
                CallsOf(pending', t) = CallsOf(pending, t)]_vars

\* The enableModule calls still pending that a change-event handler made.
HandlerEnables == {p \in BagToSet(pending) : p.op = "enable" /\ p.src \in Topics}

\* C20 as stated: an enableModule call made by a change-event handler exists
\* only once the promise initialiseWebRequestPipeline returned has settled,
\* fulfilled or rejected.
C20_EnableAfterPipelineSettled ==
    HandlerEnables # {} => pipelineInit \in {"resolved", "rejected"}

\* C20 as amended: such a call exists only once cliqzStartup has settled, so
\* with initialiseWebRequestPipeline settled, or never called because
\* cliqz.start() was rejected.
C20_EnableAfterStartupSettled ==
    HandlerEnables # {} => cliqzStartup = "settled" /\ pipelineInit # "pending"

\* A handler has called enableModule after one addPipelineStep was rejected.
C20_Witness ==
    /\ HandlerEnables # {}
    /\ pipelineInit = "rejected" /\ ~pipelineIsDisabled

\* C21: on no stage is Ghostery's direct listener registered once the
\* addPipelineStep action for that stage has been called, whether the action
\* is still pending, has added the step, or was rejected.
C21_NoDoubleHandler ==
    \A st \in Stages : directListener[st] => step[st] = "none"

\* Both steps have been added and no direct listener is left.
C21_Witness ==
    /\ \A st \in Stages : step[st] = "resolved" /\ ~directListener[st]
    /\ pipelineInit = "resolved"

\* The enableModule and disableModule calls still pending in bag that the
\* handler of conf.save.<topic> made.
TransitionsOf(bag, topic) ==
    LET hit == {p \in BagToSet(bag) : p.src = topic /\ p.op # "isReady"}
    IN BagCardinality([p \in hit |-> bag[p]])

\* C22: the step in which an enableModule or disableModule call of the
\* human-web handler is fulfilled clears HUMAN_WEB_PROCESSING and runs
\* setupABTests once: enable_offers becomes what it was and the 'offers' test
\* allow, its handler is run at most once, and with anti-tracking on the
\* options of the tests are pushed, telemetryMode 0 when human web is off.
C22_CompletionRecomputes ==
    [][(inputs' = inputs
            /\ TransitionsOf(pending', "enable_human_web")
                    < TransitionsOf(pending, "enable_human_web")) =>
        /\ HUMAN_WEB_PROCESSING /\ ~HUMAN_WEB_PROCESSING'
        /\ conf'["enable_offers"] = (("offers" \in abtest) /\ conf["enable_offers"])
        /\ BagCardinality(CallsOf(pending', "enable_offers"))
                <= BagCardinality(CallsOf(pending, "enable_offers")) + 1
        /\ conf["enable_anti_tracking"] =>
                atConfig' = <<[GetAntitrackingTestConfig(abtest) EXCEPT
                                !.telemetryMode = IF conf["enable_human_web"] THEN @ ELSE 0]>>]_vars

\* Human web was on at start-up and has been switched off by a message, the
\* transition is over and the options pushed to anti-tracking carry
\* telemetryMode 0 under the 'antitracking_full' test.
C22_Witness ==
    /\ ~IS_EDGE /\ ~JUST_UPGRADED_FROM_7 /\ pipelineInit = "resolved"
    /\ msg.name = "updateDataCollection"
    /\ ~conf["enable_human_web"] /\ modState["human-web"] = "disabled"
    /\ modState["offers-v2"] = "enabled"
    /\ ~HUMAN_WEB_PROCESSING /\ pending = EmptyBag
    /\ "antitracking_full" \in abtest
    /\ atConfig = <<[qsEnabled |-> TRUE, telemetryMode |-> 0]>>

\* C23: a step in which the options held by anti-tracking change is one that
\* began with enable_anti_tracking true, and when it began with
\* enable_human_web false the telemetryMode pushed is 0 whatever the tests are.
C23_TelemetryOffWithoutHumanWeb ==
    [][atConfig' # atConfig =>
        /\ conf["enable_anti_tracking"]
        /\ Len(atConfig') = 1
        /\ ~conf["enable_human_web"] => atConfig'[1].telemetryMode = 0]_vars

\* Under the 'antitracking_half' test, with human web off and anti-tracking
\* on, the options pushed are qsEnabled true with telemetryMode 0.
C23_Witness ==
    /\ "antitracking_half" \in abtest /\ "antitracking_full" \notin abtest
    /\ ~conf["enable_human_web"] /\ conf["enable_anti_tracking"]
    /\ atConfig = <<[qsEnabled |-> TRUE, telemetryMode |-> 0]>>

\* This step runs setupABTests: an abtest.fetch() is fulfilled, or a
\* transition of the human-web handler is.
RunsSetupABTests ==
    /\ inputs' = inputs
    /\ \/ fetching' < fetching
       \/ TransitionsOf(pending', "enable_human_web")
                < TransitionsOf(pending, "enable_human_web")

\* C24: a run of setupABTests leaves enable_offers true exactly when it was
\* true before the run and the 'offers' test is present; it never turns
\* enable_offers from false to true.
C24_OffersOnlyIfLeftEnabled ==
    [][RunsSetupABTests =>
        /\ conf'["enable_offers"] = (conf["enable_offers"] /\ "offers" \in abtest')
        /\ conf'["enable_offers"] => conf["enable_offers"]]_vars

\* The 'offers' test has arrived at a store where offers were off: they are
\* still off and the offers modules are still disabled.
C24_Witness ==
    /\ "offers" \in abtest /\ ~conf["enable_offers"]
    /\ inputs = 1 /\ msg = NoMsg /\ fetching = 0
    /\ modState["offers-v2"] = "disabled" /\ modState["message-center"] = "disabled"

\* C25: BACKGROUND_LOADING is true when background.js is loaded, once false it
\* stays false, and once the database inits are fulfilled and cliqzStartup
\* (cliqz.start() and the pipeline initialisation) has settled it becomes false.
C25_LoadingFlagClearedOnce ==
    /\ BACKGROUND_LOADING = TRUE
    /\ [][~BACKGROUND_LOADING => ~BACKGROUND_LOADING']_vars
    /\ [][BACKGROUND_LOADING /\ ~BACKGROUND_LOADING' =>
            dbInit = "resolved" /\ cliqzStartup = "settled"]_vars
    /\ (dbInit = "resolved" /\ cliqzStartup = "settled") ~> ~BACKGROUND_LOADING

\* Loading has ended after a rejected pipeline initialisation, and a message
\* has been handled since.
C25_Witness ==
    /\ ~BACKGROUND_LOADING /\ phase = "running"
    /\ pipelineInit = "rejected"
    /\ msg.name # ""

\* The step in which cliqzStartup's reconciliation runs on an install that is
\* not an upgrade from version 7.
ReconcilesFromModules ==
    /\ cliqzStartup # "settled" /\ cliqzStartup' = "settled"
    /\ pipelineInit' = "resolved"
    /\ ~JUST_UPGRADED_FROM_7

C27_PushOnlyWhenReady ==
    [][atConfig' # atConfig => modState["antitracking"] = "enabled"]_vars

\* C28: the response callback of a message is invoked at most once over the
\* whole handling of the message, the continuations of the asynchronous
\* handlers and their error paths included.
C28_CallbackAtMostOnce == msg.cbSync + msg.cbLate <= 1

\* A 'getCliqzModuleData' message was answered from the continuation of the
\* anti-tracking statistics request, after the active tab was found.
C28_Witness ==
    /\ msg.name = "getCliqzModuleData" /\ msg.ret = "true"
    /\ conf["enable_anti_tracking"]
    /\ msg.cbSync = 0 /\ msg.cbLate = 1 /\ msg.wait = "none"

\* C29: once nothing a message waits for is outstanding any more, a message
\* for which onMessageHandler returned true, and whose callback can be called,
\* has had its callback invoked.
C29_KeptOpenIsAnswered ==
    (msg.ret = "true" /\ msg.canCall /\ msg.wait = "none") =>
        msg.cbSync + msg.cbLate >= 1

\* C30: after loading, on a host where the four handlers act, once no cliqz
\* call and no abtest fetch is outstanding and no guard is set, every
\* enable_X setting equals whether its module (for enable_offers both
\* message-center and offers-v2) is enabled.
C30_SettledStateMatchesSetting ==
    (/\ ~BACKGROUND_LOADING /\ ~IS_EDGE /\ ~IS_CLIQZ
     /\ pending = EmptyBag /\ fetching = 0
     /\ \A t \in Topics : ~GuardOf(t)) =>
        \A t \in Topics :
            /\ conf[t] = (modState[ModuleOf(t)] = "enabled")
            /\ conf[t] = (modState[StatusModuleOf(t)] = "enabled")

\* C31: once loading has ended and no addPipelineStep action is pending, each
\* stage has exactly one Ghostery handler: the direct listener or the pipeline
\* step, whether the pipeline initialisation succeeded, was refused or failed.
C31_OneHandlerPerStage ==
    (phase = "running" /\ \A st \in Stages : step[st] # "pending") =>
        \A st \in Stages : directListener[st] # (step[st] = "resolved")

\* C32: a transition of offers-v2 is requested for the enable_offers handler
\* (enableModule, or the isReady() that opens a disable) only in the step in
\* which a message-center call of that handler towards the same target is
\* fulfilled; a step that requests the message-center transition, and a step
\* in which a message-center call is rejected, request none.
C32_OffersAfterMessageCenter ==
    [][\A q \in BagToSet(pending') :
        (/\ q.mod = "offers-v2" /\ q.src = "enable_offers"
         /\ q.op \in {"enable", "isReady"}
         /\ CopiesIn(q, pending') > CopiesIn(q, pending)) =>
            /\ inputs' = inputs
            /\ \E p \in BagToSet(pending) :
                /\ p.mod = "message-center" /\ p.src = "enable_offers"
                /\ p.op = (IF q.op = "enable" THEN "enable" ELSE "disable")
                /\ CopiesIn(p, pending') < CopiesIn(p, pending)
                /\ modState'["message-center"] =
                        (IF q.op = "enable" THEN "enabled" ELSE "disabled")]_vars

\* The message-center module has been disabled for the handler and the
\* isReady() that opens the disabling of offers-v2 is pending.
C32_Witness ==
    /\ BagIn(Promise("isReady", "offers-v2", "enable_offers", FALSE), pending)
    /\ modState["message-center"] = "disabled"
    /\ ~conf["enable_offers"]
    /\ ~BACKGROUND_LOADING

====
